---- MODULE Spec2Model ----
(***************************************************************************)
(* Rate limiting and retry layer of telegram-mcp-api.                      *)
(*                                                                         *)
(*   TelegramCore   (src/telegram_core.py)   asyncio; shared by the HTTP   *)
(*                  handlers; a coroutine runs until it awaits.            *)
(*   TelegramClient (src/telegram_client.py) synchronous; one caller, that *)
(*                  blocks in time.sleep and in the HTTP request.          *)
(*                                                                         *)
(* Scheduling: one action is one uninterrupted run of one caller, from the *)
(* point where it was suspended (idle, asleep, awaiting a provider call)   *)
(* to the next such point. The clock does not advance inside a run, so     *)
(* every time.time() read of a run yields the same value and the local     *)
(* current_time of a gate equals Now.                                      *)
(*                                                                         *)
(* Clock: the code never uses a timestamp except in a difference with      *)
(* time.time() (elapsed = current_time - last, wait = reset - current).    *)
(* Every timestamp is therefore kept relative to the present: Now is 0, a  *)
(* stored time t stands for "t ticks from now" (negative: in the past),    *)
(* and Tick moves every stored time one tick towards the past. A time      *)
(* that lies further back than the delay it is compared with is kept at    *)
(* that delay: the code cannot tell the two apart. A sleep of d suspends   *)
(* the caller until d ticks have passed; it may resume later, never        *)
(* earlier.                                                                *)
(*                                                                         *)
(* The durations of the source (0.2 s, 1.0 s, 3600 s), the quota of 120    *)
(* edits and the jitter ranges are scaled down to the small parameters     *)
(* below.                                                                  *)
(*                                                                         *)
(* Specifications:                                                         *)
(*   SpecCore       two coroutines calling send_message and edit_message   *)
(*                  of one TelegramCore;                                   *)
(*   SpecCoreEdits  two coroutines calling edit_message only, with         *)
(*                  fairness of the clock and of the resumption of         *)
(*                  sleepers;                                              *)
(*   SpecCoreCancel SpecCoreEdits without fairness, where a coroutine      *)
(*                  asleep in a gate can be cancelled;                     *)
(*   SpecCoreChats  two coroutines, one sending and editing in chat A, one *)
(*                  sending and forwarding to chat B;                      *)
(*   SpecClient     one caller of TelegramClient._request;                 *)
(*   SpecClientFair SpecClient with fairness of the clock and of the       *)
(*                  steps of the caller;                                   *)
(*   SpecClientChats  one caller of _request with destinations A and B;    *)
(*   SpecClientThrottle  one caller answered with 429 responses of every   *)
(*                  shape;                                                 *)
(*   SpecClientPosts  one caller of the methods that POST a chat_id;       *)
(*   SpecClientRetries  SpecClient for clients constructed with            *)
(*                  max_retries from -1 up;                                *)
(*   SpecCoreFlood  two coroutines editing, sending and forwarding, with   *)
(*                  FloodWaitError among the outcomes;                     *)
(*   SpecWaits      the computations of a wait (_extract_flood_wait_time,  *)
(*                  _handle_rate_limit_error, the FloodWait handlers of    *)
(*                  TelegramCore) applied to the answers a server can      *)
(*                  give, well-formed or not.                              *)
(* In TelegramCore the try block of an operation (get_entity, then the     *)
(* send or edit call) is one provider interaction.                         *)
(***************************************************************************)
EXTENDS Integers, Sequences, FiniteSets, TLC

\* ---------------------------------------------------------------- bounds
\* min_request_delay (0.2 s in the source), in ticks.
MIN_REQUEST_DELAY == 1
\* Minimum spacing of messages to one chat (1.0 s in the source), in ticks.
MSG_DELAY == 2
\* Minimum spacing of edits (0.2 s in the source), in ticks.
EDIT_DELAY == 1
\* Edits allowed per window (120 in the source).
EDIT_LIMIT == 2
\* Length of the edit window (3600 s in the source), in ticks.
EDIT_WINDOW == 4
\* Largest jitter added to a sleep (random.uniform(0, x)), in ticks.
JITTER == 1
\* max_retries of TelegramClient (constructor parameter, default 3).
MAX_RETRIES == 2
\* Upper clamp of a FLOOD_WAIT pause (3600 s in the source), in ticks.
MAX_FLOOD_WAIT == 2
\* Upper clamp of a 429 backoff (60 s in the source), in ticks.
MAX_RATE_LIMIT_WAIT == 6

\* ------------------------------------------------------------- constants
\* Python's None for the Optional[float] fields and absent numbers.
None == -99
\* time.time(), in the frame of the present.
Now == 0
\* The wait assumed when an answer names none (1.0 s in the source), in ticks.
DEFAULT_WAIT == 1
\* A JSON value or a header that is there and is not a number.
NotANumber == -98

Callers == {1, 2}
\* TelegramClient is synchronous: its operations are run by one caller.
ClientCallers == {1}
Chats == {"A", "B"}
\* A chat id that validate_ids rejects.
InvalidChat == "?"
\* chat_id = None
NoChat == "-"

VARIABLES
    last_request_time,            \* self._last_request_time
    last_message_time_per_chat,   \* self._last_message_time_per_chat
    last_edit_time,               \* self._last_edit_time
    edit_count_last_hour,         \* self._edit_count_last_hour
    edit_count_reset_time,        \* self._edit_count_reset_time
    pc,                           \* position of each caller
    op,                           \* the operation each caller executes
    wake_at,                      \* the time a sleeping caller may resume
    attempt,                      \* attempt index of the retry loop
    result,                       \* outcome of each caller's last operation
    \* history of the execution, read by the properties only
    edit_log,                     \* times of the edit acquisitions of the last window
    stat,                         \* per caller: counters of the current operation
    blocked,                      \* per caller: what it saw when the quota blocked it
    json_data,                    \* the members of the JSON body of the client's request
    max_retries,                  \* self.max_retries of the TelegramClient
    \* the wait computations taken alone (SpecWaits)
    response,                     \* the answer a wait is computed from
    computed                      \* the wait computed last, and by what

vars == <<last_request_time, last_message_time_per_chat, last_edit_time,
          edit_count_last_hour, edit_count_reset_time, pc, op, wake_at, attempt,
          result, edit_log, stat, blocked, json_data, max_retries, response,
          computed>>

Min(a, b) == IF a < b THEN a ELSE b
Max(a, b) == IF a > b THEN a ELSE b

NoOp == [name |-> "none", chat_id |-> NoChat, is_edit |-> FALSE, check_msg |-> FALSE]
\* What the last operation returned or raised, with the number of outbound
\* calls it made and of 429 / FLOOD_WAIT answers it received.
\* wait: the retry_after of the exception raised; wait_time: its wait_time.
NoResult ==
    [type |-> "none", wait |-> None, wait_time |-> None, data |-> "none",
     calls |-> 0, fails |-> 0]
\* Of the operation in progress: acquisitions of the edit gate (edits), of the
\* chat's cadence gate (msgs) and of RateGate (gates), outbound calls issued,
\* backoff sleeps, 429 / FLOOD_WAIT answers.
NoStat ==
    [edits |-> 0, msgs |-> 0, gates |-> 0, calls |-> 0, sleeps |-> 0, fails |-> 0,
     last_exception |-> "none"]
\* Of a caller the full quota has made sleep: the reset time it slept for,
\* whether the window has been reset since, whether its edit is counted.
NotBlocked == [reset |-> None, reset_seen |-> FALSE, counted |-> FALSE]
\* A JSON body is the set of its members, <<name, value>>; json_data = None
\* and an empty dict have no member.
NoBody == {}

\* --------------------------------------------------------------- answers
\* The text of an error (str(error_msg), str(error_code)), as the tokens that
\* the search of _extract_flood_wait_time tells apart: words, the separators
\* "_" and " ", other punctuation, and runs of digits.
Word(w) == [kind |-> "word", text |-> w, n |-> 0]
Separator(ch) == [kind |-> "sep", text |-> ch, n |-> 0]
Punctuation(ch) == [kind |-> "punct", text |-> ch, n |-> 0]
Number(n) == [kind |-> "num", text |-> "", n |-> n]

\* "FLOOD_WAIT_45", "flood_wait 45", ...: the marker as it is spelled, the
\* separators, the number.
MarkerText(w, seps, n) ==
    <<Word(w)>> \o [i \in DOMAIN seps |-> Separator(seps[i])] \o <<Number(n)>>

\* A fault: the text is taken as it is spelled.
UpperAsIs(text) == text
\* str.upper()
UpperWord(w) ==
    CASE w = "flood_wait" -> "FLOOD_WAIT"
      [] w = "Flood_Wait" -> "FLOOD_WAIT"
      [] w = "error" -> "ERROR"
      [] OTHER -> w
Upper(text) == [i \in DOMAIN text |-> [text[i] EXCEPT !.text = UpperWord(@)]]

\* "FLOOD_WAIT" in text
ContainsFloodWait(text) == \E i \in DOMAIN text : text[i] = Word("FLOOD_WAIT")

\* FLOOD_WAIT[_\s]+(\d+) matches from token i to the number at token j.
Matches(text, i, j) ==
    /\ j > i + 1
    /\ text[i] = Word("FLOOD_WAIT")
    /\ \A k \in (i + 1)..(j - 1) : text[k].kind = "sep"
    /\ text[j].kind = "num"

\* re.search(r'FLOOD_WAIT[_\s]+(\d+)', text): group 1 of the leftmost match,
\* None when nothing matches.
SearchFloodWait(text) ==
    LET starts == {i \in DOMAIN text : \E j \in DOMAIN text : Matches(text, i, j)}
    IN  IF starts = {} THEN None
        ELSE LET i == CHOOSE m \in starts : \A o \in starts : m <= o
                 j == CHOOSE k \in DOMAIN text : Matches(text, i, k)
             IN  text[j].n

\* The "parameters" member of a body: absent or an object with the members
\* seconds and retry_after (None: absent), or a value that is not an object.
NoParameters == [is_dict |-> TRUE, seconds |-> None, retry_after |-> None]
NotADict == [is_dict |-> FALSE, seconds |-> None, retry_after |-> None]

\* What self._client.request can do. transport: it raises httpx.RequestError
\* or TimeoutException. Otherwise a response with a status code, a body (json:
\* a JSON object, another JSON value, not JSON) with the members success,
\* error_code, error, parameters, data and retry_after (body_retry_after), and
\* the Retry-After header.
\* FailureResponse: success is false and nothing names FLOOD_WAIT.
FailureResponse ==
    [transport |-> FALSE, status |-> 200, json |-> "object", success |-> FALSE,
     error_code |-> <<>>, error |-> <<Word("error")>>,
     parameters |-> NoParameters, data |-> "none",
     body_retry_after |-> None, header_retry_after |-> None]
OkResponse(data) == [FailureResponse EXCEPT !.success = TRUE, !.data = data]
ThrottleResponse(body, header) ==
    [FailureResponse EXCEPT !.status = 429, !.body_retry_after = body,
                            !.header_retry_after = header]
FloodText(in_msg, text) ==
    IF ~in_msg THEN <<Word("error")>>
    ELSE IF text = None THEN <<Word("FLOOD_WAIT")>>
    ELSE MarkerText("FLOOD_WAIT", <<"_">>, text)
FloodResponse(in_code, in_msg, text, param) ==
    [FailureResponse EXCEPT
        !.error_code = IF in_code THEN <<Word("FLOOD_WAIT")>> ELSE <<>>,
        !.error = FloodText(in_msg, text),
        !.parameters = [NoParameters EXCEPT !.seconds = param]]
HttpErrorResponse == [FailureResponse EXCEPT !.status = 500]
\* A request the server rejects as invalid.
RejectionResponse == [FailureResponse EXCEPT !.status = 422]
TransportError == [FailureResponse EXCEPT !.transport = TRUE, !.status = 0]

\* The wait computed last: by which function, for which attempt, from which
\* e.seconds (TelegramCore), with which retry_after (the local variable of
\* _handle_rate_limit_error at line 168), the value returned or the exception
\* raised.
NoWait ==
    [by |-> "none", attempt |-> 0, seconds |-> None, retry_after |-> None,
     value |-> None, raised |-> "none"]

\* TelegramCore.__init__ / TelegramClient.__init__
Init ==
    /\ last_request_time = None
    /\ last_message_time_per_chat = [d \in Chats |-> None]
    /\ last_edit_time = None
    /\ edit_count_last_hour = 0
    /\ edit_count_reset_time = None
    /\ pc = [c \in Callers |-> "idle"]
    /\ op = [c \in Callers |-> NoOp]
    /\ wake_at = [c \in Callers |-> Now]
    /\ attempt = [c \in Callers |-> 0]
    /\ result = [c \in Callers |-> NoResult]
    /\ edit_log = <<>>
    /\ stat = [c \in Callers |-> NoStat]
    /\ blocked = [c \in Callers |-> NotBlocked]
    /\ json_data = NoBody
    /\ max_retries = MAX_RETRIES
    /\ response = FailureResponse
    /\ computed = NoWait

\* ------------------------------------------------------------ scheduling
\* What caller c sees when it starts to run: the shared fields and its own
\* locals. The operators below take such a record and return the record at
\* the end of the run; Commit writes it back.
View(c) ==
    [me |-> c,
     last_request_time |-> last_request_time,
     last_message_time_per_chat |-> last_message_time_per_chat,
     last_edit_time |-> last_edit_time,
     edit_count_last_hour |-> edit_count_last_hour,
     edit_count_reset_time |-> edit_count_reset_time,
     pc |-> pc[c], op |-> op[c], wake_at |-> wake_at[c], attempt |-> attempt[c],
     result |-> result[c], edit_log |-> edit_log, stat |-> stat[c],
     blocked |-> blocked, json_data |-> json_data]

Commit(c, s) ==
    /\ last_request_time' = s.last_request_time
    /\ last_message_time_per_chat' = s.last_message_time_per_chat
    /\ last_edit_time' = s.last_edit_time
    /\ edit_count_last_hour' = s.edit_count_last_hour
    /\ edit_count_reset_time' = s.edit_count_reset_time
    /\ pc' = [pc EXCEPT ![c] = s.pc]
    /\ op' = [op EXCEPT ![c] = s.op]
    /\ wake_at' = [wake_at EXCEPT ![c] = s.wake_at]
    /\ attempt' = [attempt EXCEPT ![c] = s.attempt]
    /\ result' = [result EXCEPT ![c] = s.result]
    /\ edit_log' = s.edit_log
    /\ stat' = [stat EXCEPT ![c] = s.stat]
    /\ blocked' = s.blocked
    /\ json_data' = s.json_data
    /\ UNCHANGED <<max_retries, response, computed>>

\* time.sleep(d) / await asyncio.sleep(d): the run ends, the caller may
\* resume at `label` once d ticks have passed (at once when d <= 0).
Sleep(s, label, d) == [s EXCEPT !.pc = label, !.wake_at = Max(Now + d, Now)]

\* The run ends waiting for a provider call to return.
Await(s, label) == [s EXCEPT !.pc = label]

\* The operation ends (a return or a raise) with outcome r.
Finish(s, r) ==
    [s EXCEPT !.pc = "idle", !.op = NoOp, !.attempt = 0, !.stat = NoStat,
              !.blocked[s.me] = NotBlocked,
              !.result = [r EXCEPT !.calls = s.stat.calls, !.fails = s.stat.fails]]

\* A sleeping caller whose time has come.
Woken(c, label) == pc[c] = label /\ Now >= wake_at[c]

\* A stored time one tick later, not followed further back than `floor`.
Shift(t, floor) == IF t = None THEN None ELSE Max(t - 1, floor)

\* The logged times that still lie less than EDIT_WINDOW back after a tick.
Recent(log) == SelectSeq(log, LAMBDA t : t - 1 > Now - EDIT_WINDOW)

\* One tick passes.
Tick ==
    /\ last_request_time' = Shift(last_request_time, Now - MIN_REQUEST_DELAY)
    /\ last_message_time_per_chat' =
           [d \in Chats |-> Shift(last_message_time_per_chat[d], Now - MSG_DELAY)]
    /\ last_edit_time' = Shift(last_edit_time, Now - EDIT_DELAY)
    /\ edit_count_reset_time' = Shift(edit_count_reset_time, Now)
    /\ wake_at' = [c \in Callers |-> Shift(wake_at[c], Now)]
    /\ edit_log' = [i \in DOMAIN Recent(edit_log) |-> Recent(edit_log)[i] - 1]
    /\ blocked' = [c \in Callers |-> [blocked[c] EXCEPT !.reset = Shift(@, Now)]]
    /\ UNCHANGED <<edit_count_last_hour, pc, op, attempt, result, stat,
                   json_data, max_retries, response, computed>>

\* ----------------------------------------------------------------- gates
\* The outbound call that follows the gates: the run ends awaiting it.
IssueCall(s) == Await([s EXCEPT !.stat.calls = @ + 1], "await")

\* --- the retry loop of TelegramClient._request
\* A fault: one iteration fewer, range(self.max_retries).
InRangeShort(att) == att < max_retries
\* for attempt in range(self.max_retries + 1)
InRange(att) == att >= 0 /\ att <= max_retries
\* After the loop: raise last_exception if there is one, else
\* TelegramClientError("Request failed after all retries").
FallThrough(s) ==
    Finish(s, [NoResult EXCEPT
                  !.type = IF s.stat.last_exception # "none"
                           THEN s.stat.last_exception ELSE "TelegramClientError",
                  !.data = "fall_through"])
\* The first iteration, if the range has one; TelegramCore has no loop.
FirstIteration(s) ==
    IF s.op.name = "request" /\ ~InRange(0) THEN FallThrough(s) ELSE IssueCall(s)
\* A fault: the attempt index stays as it is.
NextIterationSameAttempt(s) == IssueCall(s)
\* continue: the next iteration, if the range has one, sends the request again.
NextIteration(s) ==
    IF InRange(s.attempt + 1)
    THEN IssueCall([s EXCEPT !.attempt = @ + 1])
    ELSE FallThrough(s)

\* --- RateGate: _wait_for_rate_limit
RateSleepTime(cur, last, jitter) == MIN_REQUEST_DELAY - (cur - last) + jitter

\* self._last_request_time = time.time(); the caller goes on to its call.
RecordRequest(s) ==
    FirstIteration([s EXCEPT !.last_request_time = Now, !.stat.gates = @ + 1])

WaitForRateLimit(s, jitter) ==
    IF /\ s.last_request_time # None
       /\ Now - s.last_request_time < MIN_REQUEST_DELAY
    THEN Sleep(s, "rate_sleep", RateSleepTime(Now, s.last_request_time, jitter))
    ELSE RecordRequest(s)

\* --- DestinationCadenceTracker: _check_message_rate_limit(chat_id)
MessageSleepTime(cur, last, jitter) == MSG_DELAY - (cur - last) + jitter

\* A fault: the time is written for every chat.
RecordMessageAllChats(s, jitter) ==
    WaitForRateLimit(
        [s EXCEPT !.last_message_time_per_chat = [d \in Chats |-> Now],
                  !.stat.msgs = @ + 1], jitter)
\* self._last_message_time_per_chat[chat_id] = time.time(); RateGate follows.
RecordMessage(s, jitter) ==
    WaitForRateLimit(
        [s EXCEPT !.last_message_time_per_chat[s.op.chat_id] = Now,
                  !.stat.msgs = @ + 1], jitter)

\* A fault: the time of the last message to any chat.
LastMessageTimeAnyChat(s) ==
    LET times == {s.last_message_time_per_chat[d] : d \in Chats} \ {None}
    IN  IF times = {} THEN None ELSE CHOOSE t \in times : \A u \in times : t >= u
\* self._last_message_time_per_chat[chat_id], None when chat_id is not in it
LastMessageTime(s) == s.last_message_time_per_chat[s.op.chat_id]

CheckMessageRateLimit(s, jitter) ==
    LET last == LastMessageTime(s)
    IN  IF last # None /\ Now - last < MSG_DELAY
        THEN Sleep(s, "msg_sleep", MessageSleepTime(Now, last, jitter))
        ELSE RecordMessage(s, jitter)

\* --- EditQuota: _check_edit_rate_limit
\* A fault: a window that ends now is still taken as open.
WindowExpiredStrict(reset, cur) == reset = None \/ cur > reset
\* self._edit_count_reset_time is None or current_time >= self._edit_count_reset_time
WindowExpired(reset, cur) == reset = None \/ cur >= reset
\* A fault: the difference taken the wrong way round.
QuotaWaitTimeReversed(reset, cur) == cur - reset
\* wait_time = self._edit_count_reset_time - current_time
QuotaWaitTime(reset, cur) == reset - cur
EditSleepTime(cur, last, jitter) == EDIT_DELAY - (cur - last) + jitter

\* The acquisition times that lie less than EDIT_WINDOW back, the newest
\* last; of more than EDIT_LIMIT + 1 only the newest are kept.
Logged(log, t) ==
    IF Len(log) <= EDIT_LIMIT THEN Append(log, t) ELSE Append(Tail(log), t)

\* self._edit_count_last_hour = 0; self._edit_count_reset_time = current_time + 3600
\* Every caller the quota has blocked sees that the window was reset.
ResetWindow(s) ==
    [s EXCEPT !.edit_count_last_hour = 0,
              !.edit_count_reset_time = Now + EDIT_WINDOW,
              !.blocked = [c \in Callers |->
                              IF s.blocked[c].reset # None
                              THEN [s.blocked[c] EXCEPT !.reset_seen = TRUE]
                              ELSE s.blocked[c]]]

\* The gates that follow the edit gate: the chat's cadence gate when the
\* operation asks for it and names a chat, then RateGate.
RemainingGates(s, jitter) ==
    IF s.op.check_msg /\ s.op.chat_id # NoChat
    THEN CheckMessageRateLimit(s, jitter)
    ELSE WaitForRateLimit(s, jitter)

\* self._last_edit_time = time.time(); self._edit_count_last_hour += 1
RecordEdit(s, jitter) ==
    RemainingGates([s EXCEPT !.last_edit_time = Now,
                        !.edit_count_last_hour = @ + 1,
                        !.edit_log = Logged(@, Now),
                        !.stat.edits = @ + 1,
                        !.blocked[s.me].counted = (s.blocked[s.me].reset # None)],
                   jitter)

\* The 5 edits/s check.
EditSpacing(s, jitter) ==
    IF s.last_edit_time # None /\ Now - s.last_edit_time < EDIT_DELAY
    THEN Sleep(s, "edit_sleep", EditSleepTime(Now, s.last_edit_time, jitter))
    ELSE RecordEdit(s, jitter)

\* TelegramCore._check_edit_rate_limit: a full window makes the caller sleep
\* until the reset time.
CheckEditRateLimit(s, jitter) ==
    LET s1 == IF WindowExpired(s.edit_count_reset_time, Now)
              THEN ResetWindow(s) ELSE s
        wait_time == QuotaWaitTime(s1.edit_count_reset_time, Now)
    IN  IF s1.edit_count_last_hour >= EDIT_LIMIT /\ wait_time > 0
        THEN Sleep([s1 EXCEPT !.blocked[s.me] =
                       [NotBlocked EXCEPT !.reset = s1.edit_count_reset_time]],
                   "quota_sleep", wait_time)
        ELSE EditSpacing(s1, jitter)

\* A fault: the window is not looked at again after the quota sleep.
AfterQuotaSleepNoRecheck(s, jitter) == EditSpacing(s, jitter)

\* After the quota sleep: current_time is read again and the window is
\* reset if its reset time has passed.
AfterQuotaSleep(s, jitter) ==
    EditSpacing(IF Now >= s.edit_count_reset_time THEN ResetWindow(s) ELSE s, jitter)

\* The runs that resume a caller asleep in a gate.
CheckEditRateLimitQuotaWake(c) ==
    /\ Woken(c, "quota_sleep")
    /\ \E j \in 0..JITTER : Commit(c, AfterQuotaSleep(View(c), j))

CheckEditRateLimitWake(c) ==
    /\ Woken(c, "edit_sleep")
    /\ \E j \in 0..JITTER : Commit(c, RecordEdit(View(c), j))

CheckMessageRateLimitWake(c) ==
    /\ Woken(c, "msg_sleep")
    /\ \E j \in 0..JITTER : Commit(c, RecordMessage(View(c), j))

WaitForRateLimitWake(c) ==
    /\ Woken(c, "rate_sleep")
    /\ Commit(c, RecordRequest(View(c)))

\* ---------------------------------------------------------- TelegramCore
\* validate_ids(param_name, value): the value is accepted or an error returned.
ValidateIds(chat) == chat \in Chats

\* What a Telethon call can do: return, raise FloodWaitError(seconds), or
\* raise another exception.
CoreFloodSeconds == {1, MAX_FLOOD_WAIT + 1}
ProviderOutcomes ==
    {[kind |-> "ok", seconds |-> 0], [kind |-> "error", seconds |-> 0]}
    \cup {[kind |-> "flood", seconds |-> s] : s \in CoreFloodSeconds}

\* wait_time = min(float(e.seconds), 3600.0)
CoreFloodWaitTime(seconds) == Min(seconds, MAX_FLOOD_WAIT)

Started(c, o) ==
    [View(c) EXCEPT !.op = o, !.attempt = 0, !.result = NoResult, !.stat = NoStat]

CoreReturn(s, type) == Finish(s, [NoResult EXCEPT !.type = type])

\* A fault: the request time is recorded before the identifier is checked.
ValidationErrorAfterGate(s) ==
    CoreReturn([s EXCEPT !.last_request_time = Now], "validation_error")
\* chat_id, error = validate_ids(...); if error: return error
ValidationError(s) == CoreReturn(s, "validation_error")

\* send_message: validation, the chat's cadence gate, RateGate, the call.
SendMessage(c, chat) ==
    /\ pc[c] = "idle"
    /\ LET s == Started(c, [name |-> "send_message", chat_id |-> chat,
                            is_edit |-> FALSE, check_msg |-> TRUE])
       IN  IF ValidateIds(chat)
           THEN \E j \in 0..JITTER : Commit(c, CheckMessageRateLimit(s, j))
           ELSE Commit(c, ValidationError(s))

\* edit_message: validation, EditQuota, RateGate, the call.
EditMessage(c, chat) ==
    /\ pc[c] = "idle"
    /\ LET s == Started(c, [name |-> "edit_message", chat_id |-> chat,
                            is_edit |-> TRUE, check_msg |-> FALSE])
       IN  IF ValidateIds(chat)
           THEN \E j \in 0..JITTER : Commit(c, CheckEditRateLimit(s, j))
           ELSE Commit(c, ValidationError(s))

\* forward_message: validation of both identifiers, the cadence gate of the
\* target chat, RateGate, the calls.
ForwardMessage(c, from_chat, to_chat) ==
    /\ pc[c] = "idle"
    /\ LET s == Started(c, [name |-> "forward_message", chat_id |-> to_chat,
                            is_edit |-> FALSE, check_msg |-> TRUE])
       IN  IF ValidateIds(from_chat) /\ ValidateIds(to_chat)
           THEN \E j \in 0..JITTER : Commit(c, CheckMessageRateLimit(s, j))
           ELSE Commit(c, ValidationError(s))

\* A fault: a FloodWaitError of the retry is waited for and retried too.
CoreFailureRetriesAgain(s, out, jitter) ==
    IF out.kind = "flood"
    THEN Sleep(s, "flood_sleep", CoreFloodWaitTime(out.seconds) + jitter)
    ELSE CoreReturn(s, "error")
\* except TelethonFloodWaitError on the first attempt: sleep, then retry;
\* any exception of the retry, and any other exception, ends the operation.
CoreFailure(s, out, jitter) ==
    IF out.kind = "flood" /\ s.attempt = 0
    THEN Sleep(s, "flood_sleep", CoreFloodWaitTime(out.seconds) + jitter)
    ELSE CoreReturn(s, "error")

\* The try block (get_entity, then send_message / edit_message) returns, or
\* the first of its calls that fails raises.
ProviderReturns(c, out) ==
    /\ pc[c] = "await"
    /\ IF out.kind = "ok"
       THEN Commit(c, CoreReturn(View(c), "ok"))
       ELSE \E j \in 0..JITTER : Commit(c, CoreFailure(View(c), out, j))

\* After the FLOOD_WAIT sleep the calls are made again, no gate in between.
CoreRetry(c) ==
    /\ Woken(c, "flood_sleep")
    /\ Commit(c, IssueCall([View(c) EXCEPT !.attempt = 1]))

\* The resumptions of a caller asleep in a gate: those of an edit, and all.
EditGateWakes(c) ==
    \/ CheckEditRateLimitQuotaWake(c)
    \/ CheckEditRateLimitWake(c)
    \/ WaitForRateLimitWake(c)

GateWakes(c) == EditGateWakes(c) \/ CheckMessageRateLimitWake(c)

NextCore ==
    \/ Tick
    \/ \E c \in Callers :
         \/ \E chat \in {"A", InvalidChat} : SendMessage(c, chat)
         \/ \E chat \in {"A", InvalidChat} : EditMessage(c, chat)
         \/ GateWakes(c)
         \/ \E out \in ProviderOutcomes : ProviderReturns(c, out)
         \/ CoreRetry(c)

SpecCore == Init /\ [][NextCore]_vars

\* The callers edit messages only, and Telethon answers every call with a
\* result or an error other than FLOOD_WAIT. Time passes, and the event loop
\* resumes a coroutine whose sleep is over.
AnswerOutcomes == {out \in ProviderOutcomes : out.kind # "flood"}

NextCoreEdits ==
    \/ Tick
    \/ \E c \in Callers :
         \/ \E chat \in {"A", InvalidChat} : EditMessage(c, chat)
         \/ EditGateWakes(c)
         \/ \E out \in AnswerOutcomes : ProviderReturns(c, out)

SpecCoreEdits ==
    /\ Init /\ [][NextCoreEdits]_vars
    /\ WF_vars(Tick)
    /\ \A c \in Callers : WF_vars(EditGateWakes(c))

\* The task that runs the operation is cancelled while it is suspended in the
\* sleep of a gate: asyncio raises CancelledError at the await, no handler of
\* the operation catches it, and the operation ends there.
GateSleeps == {"quota_sleep", "edit_sleep", "msg_sleep", "rate_sleep"}
Cancel(c) ==
    /\ pc[c] \in GateSleeps
    /\ Commit(c, CoreReturn(View(c), "CancelledError"))

\* Two coroutines calling edit_message, any of which may be cancelled while
\* it waits in a gate.
NextCoreCancel ==
    \/ NextCoreEdits
    \/ \E c \in Callers : Cancel(c)

SpecCoreCancel == Init /\ [][NextCoreCancel]_vars

\* Two coroutines, each working on a chat of its own: the first sends and
\* edits messages in chat "A", the second sends messages to chat "B" and
\* forwards messages from "A" to "B"; identifiers are valid or invalid, and
\* Telethon answers every call with a result or an error other than FLOOD_WAIT.
NextCoreChats ==
    \/ Tick
    \/ \E chat \in {"A", InvalidChat} : SendMessage(1, chat) \/ EditMessage(1, chat)
    \/ \E chat \in {"B", InvalidChat} : SendMessage(2, chat)
    \/ \E from_chat \in {"A", InvalidChat} :
           \E to_chat \in {"B", InvalidChat} : ForwardMessage(2, from_chat, to_chat)
    \/ \E c \in Callers :
         \/ GateWakes(c)
         \/ \E out \in AnswerOutcomes : ProviderReturns(c, out)

SpecCoreChats == Init /\ [][NextCoreChats]_vars

\* Two coroutines, the first editing messages in chat "A", the second sending
\* messages to chat "B" and forwarding messages from "A" to "B"; Telethon
\* answers a call with a result, a FloodWaitError or another exception.
NextCoreFlood ==
    \/ Tick
    \/ EditMessage(1, "A")
    \/ SendMessage(2, "B")
    \/ ForwardMessage(2, "A", "B")
    \/ \E c \in Callers :
         \/ GateWakes(c)
         \/ \E out \in ProviderOutcomes : ProviderReturns(c, out)
         \/ CoreRetry(c)

SpecCoreFlood == Init /\ [][NextCoreFlood]_vars

\* -------------------------------------------------------- TelegramClient
\* A fault: the edit is counted before the error is raised.
QuotaExceededCounted(s, wait_time) ==
    Finish([s EXCEPT !.last_edit_time = Now, !.edit_count_last_hour = @ + 1],
           [NoResult EXCEPT !.type = "RateLimitError",
                            !.wait = wait_time, !.data = "edit_quota"])
\* raise RateLimitError("Edit rate limit exceeded ...", retry_after=wait_time)
QuotaExceeded(s, wait_time) ==
    Finish(s, [NoResult EXCEPT !.type = "RateLimitError",
                               !.wait = wait_time, !.data = "edit_quota"])

\* TelegramClient._check_edit_rate_limit: a full window raises RateLimitError
\* with retry_after = wait_time.
ClientCheckEditRateLimit(s, jitter) ==
    LET s1 == IF WindowExpired(s.edit_count_reset_time, Now)
              THEN ResetWindow(s) ELSE s
        wait_time == QuotaWaitTime(s1.edit_count_reset_time, Now)
    IN  IF s1.edit_count_last_hour >= EDIT_LIMIT /\ wait_time > 0
        THEN QuotaExceeded(s1, wait_time)
        ELSE EditSpacing(s1, jitter)

\* _request(..., check_message_rate_limit, chat_id, is_edit): the gates, once,
\* then the first HTTP request.
Request(c, is_edit, check_msg, chat) ==
    /\ pc[c] = "idle"
    /\ LET s == Started(c, [name |-> "request", chat_id |-> chat,
                            is_edit |-> is_edit, check_msg |-> check_msg])
       IN  \E j \in 0..JITTER :
               Commit(c, IF is_edit THEN ClientCheckEditRateLimit(s, j)
                                    ELSE RemainingGates(s, j))

\* The parameter combinations of _get, _post(check_message_rate_limit=True,
\* chat_id=...), _post(check_message_rate_limit=True) and _put(is_edit=True).
RequestArgs ==
    {[is_edit |-> FALSE, check_msg |-> FALSE, chat_id |-> NoChat],
     [is_edit |-> FALSE, check_msg |-> TRUE, chat_id |-> "A"],
     [is_edit |-> FALSE, check_msg |-> TRUE, chat_id |-> NoChat],
     [is_edit |-> TRUE, check_msg |-> FALSE, chat_id |-> NoChat]}

\* The answers of SpecClient; the waits they name are not negative.
\* data: absent, a JSON document, a string that is not JSON.
Responses ==
    {OkResponse(d) : d \in {"none", "json", "text"}}
    \cup {ThrottleResponse(None, None),
          ThrottleResponse(MAX_RATE_LIMIT_WAIT - 1, None),
          ThrottleResponse(MAX_RATE_LIMIT_WAIT - 1, 1),
          [ThrottleResponse(None, 1) EXCEPT !.json = "invalid"],
          [ThrottleResponse(None, None) EXCEPT !.error = <<Word("FLOOD_WAIT")>>]}
    \cup {FloodResponse(TRUE, FALSE, None, None),
          FloodResponse(FALSE, TRUE, None, MAX_FLOOD_WAIT + 1),
          FloodResponse(TRUE, TRUE, 1, MAX_FLOOD_WAIT + 1),
          [FloodResponse(FALSE, TRUE, 1, None) EXCEPT !.status = 500]}
    \cup {FailureResponse, HttpErrorResponse, RejectionResponse, TransportError}

\* _handle_rate_limit_error, lines 145-165: retry_after of the body, else
\* parameters.retry_after, else the default; the default when that value is
\* not a number or the body is not a JSON object; replaced by the Retry-After
\* header when it parses as a number.
IsNumber(v) == v # None /\ v # NotANumber
BodyRetryAfter(resp) ==
    IF resp.json # "object" THEN DEFAULT_WAIT
    ELSE LET v == IF resp.body_retry_after # None THEN resp.body_retry_after
                  ELSE IF resp.parameters.retry_after # None
                  THEN resp.parameters.retry_after
                  ELSE DEFAULT_WAIT
         IN  IF IsNumber(v) THEN v ELSE DEFAULT_WAIT
RetryAfter(resp) ==
    IF IsNumber(resp.header_retry_after) THEN resp.header_retry_after
    ELSE BodyRetryAfter(resp)
\* error_data.get("parameters", {}).get(...) on a value that is not an object
\* raises AttributeError, which the function does not catch.
HandleRateLimitErrorRaises(resp) == resp.json = "object" /\ ~resp.parameters.is_dict

\* A fault: no doubling per attempt.
BackoffTimeFlat(retry_after, att) == retry_after
\* backoff_time = retry_after * (2 ** attempt)
BackoffTime(retry_after, att) == retry_after * 2^att
\* A quarter of b, towards zero.
Quarter(b) == IF b >= 0 THEN b \div 4 ELSE -((-b) \div 4)
\* random.uniform(0, backoff_time * 0.25): between 0 and the quarter, on
\* either side of 0.
ThrottleJitter(resp, att) ==
    LET q == Quarter(BackoffTime(RetryAfter(resp), att))
    IN  IF q >= 0 THEN 0..q ELSE q..0
\* total_wait = min(backoff_time + jitter, 60.0)
HandleRateLimitError(resp, att, jitter) ==
    Min(BackoffTime(RetryAfter(resp), att) + jitter, MAX_RATE_LIMIT_WAIT)

\* bool(v) of a number or None
Truthy(v) == v # None /\ v # 0

\* _extract_flood_wait_time: the default, replaced by parameters.seconds or
\* parameters.retry_after, replaced by the number in the error text, at most
\* MAX_FLOOD_WAIT.
ExtractFloodWaitTime(resp) ==
    LET seconds == IF Truthy(resp.parameters.seconds)
                   THEN resp.parameters.seconds ELSE resp.parameters.retry_after
        from_parameters == IF resp.parameters.is_dict /\ Truthy(seconds)
                           THEN seconds ELSE DEFAULT_WAIT
        match == SearchFloodWait(Upper(resp.error))
        from_text == IF match # None THEN match ELSE from_parameters
    IN  Min(from_text, MAX_FLOOD_WAIT)

\* "FLOOD_WAIT" in str(error_code).upper() or "FLOOD_WAIT" in str(error_msg).upper()
IsFloodWait(resp) ==
    \/ ContainsFloodWait(Upper(resp.error_code))
    \/ ContainsFloodWait(Upper(resp.error))

\* A fault: the jitter alone.
FloodSleepTimeJitterOnly(wait, jitter) == jitter
\* wait_time + random.uniform(0, 1)
FloodSleepTime(wait, jitter) == wait + jitter

\* A fault: a power of three.
ErrorBackoffCubed(att, jitter) == 3^att + jitter
\* wait_time = (2 ** attempt) + random.uniform(0, 1)
ErrorBackoff(att, jitter) == 2^att + jitter

\* A fault: the data is returned as it came.
ReturnValueUnparsed(data) == data
\* data = result.get("data"): json.loads(data) if it parses, else data as it is.
ReturnValue(data) ==
    IF data # "none" THEN (IF data = "json" THEN "object" ELSE data) ELSE data

\* A fault: one retry fewer.
CanRetryOneFewer(att) == att + 1 < MAX_RETRIES
\* if attempt < self.max_retries
CanRetry(att) == att < max_retries

\* raise
Raise(s, type, wait) ==
    Finish(s, [NoResult EXCEPT !.type = type, !.wait = wait, !.data = "raised"])

\* A fault: the error is built with the default wait_time of its constructor.
FloodWaitErrorDefault(wait) ==
    [NoResult EXCEPT !.type = "FloodWaitError", !.wait_time = DEFAULT_WAIT,
                     !.wait = DEFAULT_WAIT, !.data = "raised"]
\* FloodWaitError(message, wait_time): self.wait_time = wait_time and
\* self.retry_after = wait_time
FloodWaitError(wait) ==
    [NoResult EXCEPT !.type = "FloodWaitError", !.wait_time = wait,
                     !.wait = wait, !.data = "raised"]

\* time.sleep(d); continue. time.sleep raises ValueError for a negative d,
\* and nothing in _request catches it.
Backoff(s, d) ==
    IF d < 0 THEN Raise(s, "ValueError", None)
    ELSE Sleep([s EXCEPT !.stat.sleeps = @ + 1], "backoff_sleep", d)

\* A fault: the exponent is the number of 429 / FLOOD_WAIT answers so far.
BackoffExponentOwnFailures(s) == s.stat.fails
\* attempt, the variable of the loop: the argument of _handle_rate_limit_error
\* and the exponent of 2 ** attempt in the except handlers.
BackoffExponent(s) == s.attempt

\* A fault: the sleep is made on the last attempt too.
RetryOrRaiseAlwaysSleeps(s, type, jitter) ==
    Backoff(s, ErrorBackoff(s.attempt, jitter))
\* except httpx.HTTPStatusError / httpx.RequestError: back off and retry, or
\* re-raise on the last attempt.
RetryOrRaise(s, type, jitter) ==
    LET s1 == [s EXCEPT !.stat.last_exception = type]
    IN  IF CanRetry(s.attempt)
        THEN Backoff(s1, ErrorBackoff(BackoffExponent(s), jitter))
        ELSE Raise(s1, type, None)

\* except httpx.HTTPStatusError: a 429 goes on to the next iteration at once.
HTTPStatusErrorHandler(s, resp, jitter) ==
    IF resp.status = 429 THEN NextIteration(s)
    ELSE RetryOrRaise(s, "HTTPStatusError", jitter)

\* One pass through the body of the retry loop, from the answer on.
HandleResponse(s, resp, jitter, throttle_jitter) ==
    IF resp.transport THEN RetryOrRaise(s, "RequestError", jitter)
    ELSE IF resp.status = 429
    THEN IF HandleRateLimitErrorRaises(resp) THEN Raise(s, "AttributeError", None)
         ELSE LET wait == HandleRateLimitError(resp, BackoffExponent(s), throttle_jitter)
                  s1 == [s EXCEPT !.stat.fails = @ + 1]
              IN  IF CanRetry(s.attempt)
                  THEN Backoff(s1, wait)
                  ELSE Raise(s1, "RateLimitError", wait)
    \* response.raise_for_status()
    ELSE IF resp.status >= 400 THEN HTTPStatusErrorHandler(s, resp, jitter)
    \* result = response.json(); result.get("success")
    ELSE IF resp.json = "invalid" THEN Raise(s, "ValueError", None)
    ELSE IF resp.json # "object" THEN Raise(s, "AttributeError", None)
    ELSE IF ~resp.success
    THEN IF IsFloodWait(resp)
         THEN LET wait == ExtractFloodWaitTime(resp)
                  s1 == [s EXCEPT !.stat.fails = @ + 1]
              IN  IF CanRetry(s.attempt)
                  THEN Backoff(s1, FloodSleepTime(wait, jitter))
                  ELSE Finish(s1, FloodWaitError(wait))
         ELSE Raise(s, "TelegramClientError", None)
    ELSE Finish(s, [NoResult EXCEPT !.type = "ok", !.data = ReturnValue(resp.data)])

\* self._client.request(...) returns or raises.
ClientResponds(c, resp) ==
    /\ pc[c] = "await"
    /\ \E j \in 0..JITTER : \E k \in ThrottleJitter(resp, attempt[c]) :
           Commit(c, HandleResponse(View(c), resp, j, k))

\* continue: the next iteration of the loop sends the request again.
RetryRequest(c) ==
    /\ Woken(c, "backoff_sleep")
    /\ Commit(c, NextIteration(View(c)))

NextClient ==
    \/ Tick
    \/ \E c \in ClientCallers :
         \/ \E a \in RequestArgs : Request(c, a.is_edit, a.check_msg, a.chat_id)
         \/ CheckEditRateLimitWake(c)
         \/ CheckMessageRateLimitWake(c)
         \/ WaitForRateLimitWake(c)
         \/ \E resp \in Responses : ClientResponds(c, resp)
         \/ RetryRequest(c)

SpecClient == Init /\ [][NextClient]_vars

\* The same, with time passing, every sleep returning, and every HTTP request
\* answered or failing (the httpx client has a timeout).
ClientRuns(c) ==
    \/ CheckEditRateLimitWake(c)
    \/ CheckMessageRateLimitWake(c)
    \/ WaitForRateLimitWake(c)
    \/ \E resp \in Responses : ClientResponds(c, resp)
    \/ RetryRequest(c)

SpecClientFair ==
    /\ Init /\ [][NextClient]_vars
    /\ WF_vars(Tick)
    /\ \A c \in ClientCallers : WF_vars(ClientRuns(c))

\* Clients constructed with max_retries from -1 up to MAX_RETRIES.
InitRetries ==
    /\ last_request_time = None
    /\ last_message_time_per_chat = [d \in Chats |-> None]
    /\ last_edit_time = None
    /\ edit_count_last_hour = 0
    /\ edit_count_reset_time = None
    /\ pc = [c \in Callers |-> "idle"]
    /\ op = [c \in Callers |-> NoOp]
    /\ wake_at = [c \in Callers |-> Now]
    /\ attempt = [c \in Callers |-> 0]
    /\ result = [c \in Callers |-> NoResult]
    /\ edit_log = <<>>
    /\ stat = [c \in Callers |-> NoStat]
    /\ blocked = [c \in Callers |-> NotBlocked]
    /\ json_data = NoBody
    /\ max_retries \in -1..MAX_RETRIES
    /\ response = FailureResponse
    /\ computed = NoWait

SpecClientRetries == InitRetries /\ [][NextClient]_vars

\* One thread that sends requests of every kind, those with a destination to
\* either chat; an answer is a success, a failure that ends the request or a
\* transport error.
RequestArgsChats ==
    RequestArgs \cup {[is_edit |-> FALSE, check_msg |-> TRUE, chat_id |-> "B"]}

NextClientChats ==
    \/ Tick
    \/ \E c \in ClientCallers :
         \/ \E a \in RequestArgsChats : Request(c, a.is_edit, a.check_msg, a.chat_id)
         \/ CheckEditRateLimitWake(c)
         \/ CheckMessageRateLimitWake(c)
         \/ WaitForRateLimitWake(c)
         \/ \E resp \in {OkResponse("none"), FailureResponse, TransportError} :
                ClientResponds(c, resp)
         \/ RetryRequest(c)

SpecClientChats == Init /\ [][NextClientChats]_vars

\* ------------------------------------------- the methods that POST a body
\* A keyword argument of a call, name=value; **data passes one per member.
Keyword(name, value) == [name |-> name, value |-> value]

\* The keyword arguments of the call of self._post in each method, in the
\* order of the source; optional members (reply_to, parse_mode, from_user,
\* title, until_date) are left out. forward_message forwards from chat "A".
PostMethods ==
    {"send_message", "forward_message", "search_messages", "invite_to_group",
     "promote_admin", "ban_user", "unban_user", "save_draft"}
PostKeywords(method, chat) ==
    CASE method = "send_message" ->
             <<Keyword("chat_id", chat), Keyword("message", "text"),
               Keyword("check_message_rate_limit", "True"), Keyword("chat_id", chat)>>
      [] method = "forward_message" ->
             <<Keyword("from_chat_id", "A"), Keyword("to_chat_id", chat),
               Keyword("message_id", "id"),
               Keyword("check_message_rate_limit", "True"), Keyword("chat_id", chat)>>
      [] method = "search_messages" ->
             <<Keyword("chat_id", chat), Keyword("query", "text"), Keyword("limit", "20")>>
      [] method = "invite_to_group" ->
             <<Keyword("chat_id", chat), Keyword("user_ids", "ids")>>
      [] method \in {"promote_admin", "ban_user", "unban_user"} ->
             <<Keyword("chat_id", chat), Keyword("user_id", "id")>>
      [] method = "save_draft" ->
             <<Keyword("chat_id", chat), Keyword("message", "text")>>

\* Python raises TypeError (got multiple values for keyword argument) when a
\* call passes one name twice, through **data or explicitly.
DuplicateKeyword(kws) ==
    \E i, j \in DOMAIN kws : i # j /\ kws[i].name = kws[j].name
\* The value a call passes for a parameter, or the parameter's default.
Passed(kws, name, default) ==
    IF \E i \in DOMAIN kws : kws[i].name = name
    THEN kws[CHOOSE i \in DOMAIN kws : kws[i].name = name].value
    ELSE default
\* def _post(self, endpoint, check_message_rate_limit=False, chat_id=None,
\* **data): data receives the keywords that name no parameter.
PostParameters == {"check_message_rate_limit", "chat_id"}
VarKeywords(kws) ==
    {<<kws[i].name, kws[i].value>> : i \in {n \in DOMAIN kws : kws[n].name \notin PostParameters}}

\* A method calls self._post(endpoint, ...), which calls self._request("POST",
\* endpoint, json_data=data, check_message_rate_limit=..., chat_id=...).
PostCall(c, method, chat) ==
    /\ pc[c] = "idle"
    /\ LET kws == PostKeywords(method, chat)
           o == [name |-> "request", chat_id |-> Passed(kws, "chat_id", NoChat),
                 is_edit |-> FALSE,
                 check_msg |-> Passed(kws, "check_message_rate_limit", "False") = "True"]
       IN  IF DuplicateKeyword(kws)
           THEN Commit(c, Raise(Started(c, NoOp), "TypeError", None))
           ELSE \E j \in 0..JITTER :
                    Commit(c, RemainingGates(
                                  [Started(c, o) EXCEPT !.json_data = VarKeywords(kws)], j))

\* One thread calling the methods for chats "A" and "B"; an answer is a
\* success, a failure that ends the request or a transport error.
NextClientPosts ==
    \/ Tick
    \/ \E c \in ClientCallers :
         \/ \E method \in PostMethods : \E chat \in Chats : PostCall(c, method, chat)
         \/ CheckMessageRateLimitWake(c)
         \/ WaitForRateLimitWake(c)
         \/ \E resp \in {OkResponse("none"), FailureResponse, TransportError} :
                ClientResponds(c, resp)
         \/ RetryRequest(c)

SpecClientPosts == Init /\ [][NextClientPosts]_vars

\* -------------------------------------------------- the wait computations
\* _extract_flood_wait_time, _handle_rate_limit_error and the wait of the
\* FloodWait handlers of TelegramCore, applied to whatever a server can answer.
operations ==
    <<last_request_time, last_message_time_per_chat, last_edit_time,
      edit_count_last_hour, edit_count_reset_time, pc, op, wake_at, attempt,
      result, edit_log, stat, blocked, json_data, max_retries>>

\* The spellings of the marker, the separator runs and the numbers of the
\* error texts.
MarkerSpellings == {"FLOOD_WAIT", "flood_wait", "Flood_Wait"}
SeparatorRuns == {<<"_">>, <<" ">>, <<"_", " ">>}
TextNumbers == {0, 2, MAX_FLOOD_WAIT + 1}
\* No marker; the marker alone; the marker, a colon and a number; the marker
\* with separators and a number, alone, inside a sentence, and twice.
Texts ==
    {<<Word("error")>>, <<Word("FLOOD_WAIT")>>,
     <<Word("flood_wait"), Punctuation(":"), Number(2)>>,
     <<Word("error"), Punctuation(":"), Separator(" ")>>
         \o MarkerText("FLOOD_WAIT", <<"_">>, 2) \o <<Separator(" "), Word("error")>>,
     MarkerText("FLOOD_WAIT", <<"_">>, 2) \o <<Separator(" ")>>
         \o MarkerText("FLOOD_WAIT", <<"_">>, MAX_FLOOD_WAIT + 1)}
    \cup {MarkerText(w, seps, n) :
              w \in MarkerSpellings, seps \in SeparatorRuns, n \in TextNumbers}

\* parameters: absent, not an object, or an object with seconds and
\* retry_after, each absent, negative, zero, or a number up to above the clamp.
SecondsValues == {None, -1, 0, 1, 2, MAX_FLOOD_WAIT + 1}
ParametersValues ==
    {NotADict}
    \cup {[is_dict |-> TRUE, seconds |-> s, retry_after |-> r] :
              s \in SecondsValues, r \in {None, 2}}
FloodWaitInputs ==
    {[FailureResponse EXCEPT !.error = text, !.parameters = par] :
         text \in Texts, par \in ParametersValues}

\* retry_after of a 429 body and the Retry-After header: absent, not a number,
\* negative, zero, a number up to above the clamp.
RetryAfterValues == {None, NotANumber, -1, 0, 2, MAX_RATE_LIMIT_WAIT + 1}
ThrottleInputs ==
    {[ThrottleResponse(body, header) EXCEPT !.json = js, !.parameters = par] :
         body \in RetryAfterValues, header \in RetryAfterValues,
         js \in {"object", "array", "invalid"},
         par \in {NoParameters, NotADict, [NoParameters EXCEPT !.retry_after = 3]}}

WaitInputs == FloodWaitInputs \cup ThrottleInputs

\* e.seconds of Telethon's FloodWaitError: the digits of FLOOD_WAIT_n.
TelethonSeconds == 0..(MAX_FLOOD_WAIT + 1)

InitWaits ==
    /\ last_request_time = None
    /\ last_message_time_per_chat = [d \in Chats |-> None]
    /\ last_edit_time = None
    /\ edit_count_last_hour = 0
    /\ edit_count_reset_time = None
    /\ pc = [c \in Callers |-> "idle"]
    /\ op = [c \in Callers |-> NoOp]
    /\ wake_at = [c \in Callers |-> Now]
    /\ attempt = [c \in Callers |-> 0]
    /\ result = [c \in Callers |-> NoResult]
    /\ edit_log = <<>>
    /\ stat = [c \in Callers |-> NoStat]
    /\ blocked = [c \in Callers |-> NotBlocked]
    /\ json_data = NoBody
    /\ max_retries = MAX_RETRIES
    /\ response \in WaitInputs
    /\ computed = NoWait

\* Another answer arrives.
Receive(resp) ==
    /\ response' = resp
    /\ computed' = NoWait
    /\ UNCHANGED operations

\* wait_time = self._extract_flood_wait_time(error_msg, result)
ExtractFloodWaitTimeCall ==
    /\ response.status # 429
    /\ computed' = [NoWait EXCEPT !.by = "_extract_flood_wait_time",
                                  !.value = ExtractFloodWaitTime(response)]
    /\ UNCHANGED <<operations, response>>

\* wait_time = self._handle_rate_limit_error(response, attempt)
HandleRateLimitErrorCall(att, jitter) ==
    /\ response.status = 429
    /\ computed' =
           IF HandleRateLimitErrorRaises(response)
           THEN [NoWait EXCEPT !.by = "_handle_rate_limit_error", !.attempt = att,
                               !.raised = "AttributeError"]
           ELSE [NoWait EXCEPT !.by = "_handle_rate_limit_error", !.attempt = att,
                               !.retry_after = RetryAfter(response),
                               !.value = HandleRateLimitError(response, att, jitter)]
    /\ UNCHANGED <<operations, response>>

\* wait_time = min(float(e.seconds), 3600.0) of send_message / edit_message
CoreFloodWaitTimeCall(seconds) ==
    /\ computed' = [NoWait EXCEPT !.by = "TelegramCore", !.seconds = seconds,
                                  !.value = CoreFloodWaitTime(seconds)]
    /\ UNCHANGED <<operations, response>>

NextWaits ==
    \/ \E resp \in WaitInputs : Receive(resp)
    \/ ExtractFloodWaitTimeCall
    \/ \E att \in 0..MAX_RETRIES :
           \E jitter \in ThrottleJitter(response, att) :
               HandleRateLimitErrorCall(att, jitter)
    \/ \E seconds \in TelethonSeconds : CoreFloodWaitTimeCall(seconds)

SpecWaits == InitWaits /\ [][NextWaits]_vars

\* One thread of TelegramClient whose requests the server answers with a
\* success or with a 429 of any shape: retry_after of the body and the
\* Retry-After header absent, not a number, negative or up to above the
\* clamp, a body that is an object, another JSON value or not JSON, and
\* parameters absent, an object, or a value that is not an object.
ThrottleAnswers ==
    {resp \in ThrottleInputs :
         /\ resp.body_retry_after \in {None, NotANumber, MAX_RATE_LIMIT_WAIT + 1}
         /\ resp.header_retry_after \in {None, -1, 2}}

NextClientThrottle ==
    \/ Tick
    \/ \E c \in ClientCallers :
         \/ \E a \in RequestArgs : Request(c, a.is_edit, a.check_msg, a.chat_id)
         \/ CheckEditRateLimitWake(c)
         \/ CheckMessageRateLimitWake(c)
         \/ WaitForRateLimitWake(c)
         \/ \E resp \in ThrottleAnswers \cup {OkResponse("none")} : ClientResponds(c, resp)
         \/ RetryRequest(c)

SpecClientThrottle == Init /\ [][NextClientThrottle]_vars

\* ============================================================ properties
\* The steps in which caller c completes an acquisition of a gate.
RateGateAcquired(c) == stat'[c].gates = stat[c].gates + 1
MessageGateAcquired(c, d) == stat'[c].msgs = stat[c].msgs + 1 /\ op'[c].chat_id = d
EditGateAcquired(c) == stat'[c].edits = stat[c].edits + 1

\* C1: RateGate spacing. Every acquisition of _wait_for_rate_limit records a
\* time at least MIN_REQUEST_DELAY after the time the previous acquisition
\* recorded, also when the callers run concurrently and sleep inside the gate.
C1_RateGateSpacing ==
    [][\A c \in Callers :
          (RateGateAcquired(c) /\ last_request_time # None)
              => Now - last_request_time >= MIN_REQUEST_DELAY]_vars

\* C2: destination cadence. For every chat d, every acquisition of
\* _check_message_rate_limit(d) records a time at least MSG_DELAY after the
\* time the previous acquisition for d recorded, also for concurrent callers.
C2_DestinationCadence ==
    [][\A c \in Callers : \A d \in Chats :
          (MessageGateAcquired(c, d) /\ last_message_time_per_chat[d] # None)
              => Now - last_message_time_per_chat[d] >= MSG_DELAY]_vars

\* C3: edit quota ceiling. In every reachable state the number of edits
\* counted in the open window (_edit_count_last_hour) is at most EDIT_LIMIT.
C3_EditQuotaCeiling == edit_count_last_hour <= EDIT_LIMIT

\* C4: edit spacing. Every acquisition of _check_edit_rate_limit records a
\* _last_edit_time at least EDIT_DELAY after the one the previous acquisition
\* recorded, also for concurrent callers and callers released together.
C4_EditSpacing ==
    [][\A c \in Callers :
          (EditGateAcquired(c) /\ last_edit_time # None)
              => Now - last_edit_time >= EDIT_DELAY]_vars

\* C5: rolling ceiling. Every interval of length EDIT_WINDOW holds at most
\* EDIT_LIMIT edit acquisitions: the acquisitions made less than EDIT_WINDOW
\* ago (edit_log) never number more than EDIT_LIMIT.
C5_RollingCeiling == Len(edit_log) <= EDIT_LIMIT

\* What _request takes an answer for.
Successful(resp) == ~resp.transport /\ resp.status = 200 /\ resp.success
Throttled(resp) == ~resp.transport /\ resp.status = 429
FloodWait(resp) ==
    /\ ~resp.transport /\ resp.status = 200 /\ ~resp.success
    /\ IsFloodWait(resp)
ExhaustionError(resp) == IF Throttled(resp) THEN "RateLimitError" ELSE "FloodWaitError"

\* EDIT_LIMIT edits are counted in the open window.
QuotaFull ==
    /\ edit_count_last_hour >= EDIT_LIMIT
    /\ ~WindowExpired(edit_count_reset_time, Now)

\* C6: quota exceeded, fail-fast side. When EDIT_LIMIT edits are counted in the
\* open window, the next _check_edit_rate_limit of TelegramClient raises
\* RateLimitError with retry_after = _edit_count_reset_time - now, a value
\* above 0 and at most EDIT_WINDOW; nothing is counted and no call is made.
C6_QuotaExceededFailsFast ==
    [][\A c \in ClientCallers :
          (Request(c, TRUE, FALSE, NoChat) /\ QuotaFull) =>
              /\ pc'[c] = "idle"
              /\ result'[c].type = "RateLimitError"
              /\ result'[c].data = "edit_quota"
              /\ result'[c].wait = edit_count_reset_time - Now
              /\ result'[c].wait > 0
              /\ result'[c].wait <= EDIT_WINDOW
              /\ result'[c].calls = 0
              /\ edit_count_last_hour' = edit_count_last_hour]_vars

\* An edit request has been refused with the largest wait but one.
C6_Witness ==
    \E c \in ClientCallers :
        /\ pc[c] = "idle"
        /\ result[c].type = "RateLimitError"
        /\ result[c].data = "edit_quota"
        /\ result[c].wait = EDIT_WINDOW - EDIT_DELAY
        /\ edit_count_last_hour = EDIT_LIMIT

\* C7: quota exceeded, blocking side. A caller of TelegramCore's
\* _check_edit_rate_limit that finds EDIT_LIMIT edits counted in the open
\* window sleeps at least until the reset time it saw; its edit is counted
\* only once that time has come and the window has been reset (count from 0,
\* reset time = now + EDIT_WINDOW); and, time advancing and sleepers being
\* resumed, its edit is eventually counted.
C7_QuotaBlocksUntilReset ==
    /\ [](\A c \in Callers :
            /\ pc[c] = "quota_sleep" =>
                   /\ blocked[c].reset # None
                   /\ ~blocked[c].counted
                   /\ wake_at[c] >= blocked[c].reset
            /\ blocked[c].counted =>
                   /\ blocked[c].reset <= Now
                   /\ blocked[c].reset_seen)
    /\ \A c \in Callers : (pc[c] = "quota_sleep") ~> blocked[c].counted

\* A caller the quota had blocked has had its edit counted, first in the new
\* window.
C7_Witness ==
    \E c \in Callers :
        /\ blocked[c].counted
        /\ edit_count_last_hour = 1
        /\ edit_count_reset_time = Now + EDIT_WINDOW

\* C8: one RateGate acquisition per outbound call. At every point of an
\* operation the number of RateGate acquisitions it has completed equals the
\* number of outbound calls it has issued, resubmissions included.
C8_OneAcquisitionPerCall ==
    \A c \in Callers : stat[c].gates = stat[c].calls

C10_FirstAttemptSuccess ==
    [][\A c \in ClientCallers : \A resp \in Responses :
          (ClientResponds(c, resp) /\ stat[c].calls = 1 /\ Successful(resp)) =>
              /\ stat[c].sleeps = 0
              /\ attempt[c] = 0
              /\ pc'[c] = "idle"
              /\ result'[c].type = "ok"
              /\ result'[c].calls = 1
              /\ result'[c].data =
                     (IF resp.data = "json" THEN "object" ELSE resp.data)]_vars

\* An invocation has returned parsed data after a single call.
C10_Witness ==
    \E c \in ClientCallers :
        /\ pc[c] = "idle"
        /\ result[c].type = "ok"
        /\ result[c].data = "object"
        /\ result[c].calls = 1

\* An answer that is neither a throttle signal, nor a wait directive, nor a
\* transport failure: an HTTP error status other than 429, or a body with
\* success = false, that does not name FLOOD_WAIT.
NonRetryable(resp) ==
    /\ ~resp.transport /\ resp.status # 429 /\ ~IsFloodWait(resp)
    /\ resp.status >= 400 \/ (resp.json = "object" /\ ~resp.success)

\* C11: non-retryable outcomes are never retried. When a call is answered with
\* an HTTP error status other than 429 or with success = false, without a
\* FLOOD_WAIT marker, _request ends at that answer with the error: no backoff
\* sleep and no further call.
C11_NonRetryableNeverRetried ==
    [][\A c \in ClientCallers : \A resp \in Responses :
          (ClientResponds(c, resp) /\ NonRetryable(resp)) =>
              /\ pc'[c] = "idle"
              /\ result'[c].type \in {"TelegramClientError", "HTTPStatusError"}
              /\ result'[c].calls = stat[c].calls]_vars

\* How each branch of the retry loop shows in the step that handles an answer:
\* the sleep it starts when a retry is left, the exception it raises when not.
HandledAsThrottle(c, resp) ==
    IF CanRetry(attempt[c])
    THEN /\ pc'[c] = "backoff_sleep"
         /\ stat'[c].fails = stat[c].fails + 1
         /\ \E k \in ThrottleJitter(resp, attempt[c]) :
                wake_at'[c] = Now + HandleRateLimitError(resp, attempt[c], k)
    ELSE pc'[c] = "idle" /\ result'[c].type = "RateLimitError"
HandledAsWaitDirective(c, resp) ==
    IF CanRetry(attempt[c])
    THEN /\ pc'[c] = "backoff_sleep"
         /\ stat'[c].fails = stat[c].fails + 1
         /\ \E j \in 0..JITTER :
                wake_at'[c] = Now + ExtractFloodWaitTime(resp) + j
    ELSE pc'[c] = "idle" /\ result'[c].type = "FloodWaitError"
HandledAsTransport(c) ==
    IF CanRetry(attempt[c])
    THEN /\ pc'[c] = "backoff_sleep"
         /\ stat'[c].fails = stat[c].fails
         /\ \E j \in 0..JITTER : wake_at'[c] = Now + ErrorBackoff(attempt[c], j)
    ELSE pc'[c] = "idle" /\ result'[c].type = "RequestError"

\* C12: classification order throttle > wait directive > transport > other.
\* An answer with status 429 is handled by the throttle branch, also when its
\* body names FLOOD_WAIT; an answer that names FLOOD_WAIT and has another
\* status, an HTTP error status included, is handled by the wait-directive
\* branch; a transport failure is handled by the transport branch.
C12_ClassificationOrder ==
    [][\A c \in ClientCallers : \A resp \in Responses :
          ClientResponds(c, resp) =>
              /\ Throttled(resp) => HandledAsThrottle(c, resp)
              /\ (~resp.transport /\ resp.status # 429 /\ IsFloodWait(resp))
                     => HandledAsWaitDirective(c, resp)
              /\ resp.transport => HandledAsTransport(c)]_vars

\* What an answer carries for _extract_flood_wait_time: a structured value
\* (parameters.seconds, else parameters.retry_after), a number in its text.
StructuredSeconds(resp) ==
    IF ~resp.parameters.is_dict THEN None
    ELSE IF Truthy(resp.parameters.seconds) THEN resp.parameters.seconds
    ELSE IF Truthy(resp.parameters.retry_after) THEN resp.parameters.retry_after
    ELSE None
NoNumberInText(resp) == \A i \in DOMAIN resp.error : resp.error[i].kind # "num"
Extracted == computed.by = "_extract_flood_wait_time"

\* C13: wait-directive parsing values. _extract_flood_wait_time returns n (45.0
\* for 45) for a text made of the marker in any letter case, separators and
\* the number n, with no parameters; s (10.0 for 10) for parameters
\* {seconds: s} and no number in the text; the default 1.0 when neither is
\* there; and never more than the clamp, which it returns for every value
\* above it.
C13_ParsingValues ==
    Extracted =>
        /\ \A w \in MarkerSpellings : \A seps \in SeparatorRuns : \A n \in TextNumbers :
               (response.error = MarkerText(w, seps, n)
                    /\ response.parameters = NoParameters)
                   => computed.value = IF n > MAX_FLOOD_WAIT THEN MAX_FLOOD_WAIT ELSE n
        /\ \A s \in SecondsValues :
               (s # None /\ s > 0 /\ NoNumberInText(response)
                    /\ response.parameters = [NoParameters EXCEPT !.seconds = s])
                   => computed.value = IF s > MAX_FLOOD_WAIT THEN MAX_FLOOD_WAIT ELSE s
        /\ (NoNumberInText(response) /\ response.parameters = NoParameters)
               => computed.value = DEFAULT_WAIT
        /\ computed.value <= MAX_FLOOD_WAIT

\* The marker in lower case with a number above the clamp, and no parameters:
\* the clamp is returned.
C13_Witness ==
    /\ Extracted
    /\ response.error = MarkerText("flood_wait", <<" ">>, MAX_FLOOD_WAIT + 1)
    /\ response.parameters = NoParameters
    /\ computed.value = MAX_FLOOD_WAIT

\* C14: wait-directive source precedence. When the answer carries a structured
\* value (parameters.seconds or parameters.retry_after), _extract_flood_wait_time
\* returns that value, clamped, whatever number the error text names.
C14_StructuredValueFirst ==
    (Extracted /\ StructuredSeconds(response) # None) =>
        computed.value = Min(StructuredSeconds(response), MAX_FLOOD_WAIT)

\* C15: wait-directive clamp. The value _extract_flood_wait_time returns and
\* the wait_time of the FloodWait handlers of TelegramCore lie between 0 and
\* the clamp.
C15_WaitDirectiveClamp ==
    computed.by \in {"_extract_flood_wait_time", "TelegramCore"} =>
        computed.value \in 0..MAX_FLOOD_WAIT

Handled == computed.by = "_handle_rate_limit_error"

\* C16: throttle backoff example. With a Retry-After header of 2 and attempt 1,
\* the wait _handle_rate_limit_error returns is 2 * 2^1 = 4 plus a jitter of at
\* most a quarter of 4: it lies between 4 and 5.
C16_ThrottleBackoffExample ==
    (Handled /\ computed.raised = "none" /\ response.header_retry_after = 2
         /\ computed.attempt = 1) =>
        /\ computed.retry_after = 2
        /\ computed.value \in 4..5

\* The example with the largest jitter.
C16_Witness ==
    /\ Handled
    /\ response.header_retry_after = 2
    /\ computed.attempt = 1
    /\ computed.value = 5

\* C17: throttle wait bound. For every attempt and every retry-after value of
\* the body and of the header, the wait _handle_rate_limit_error returns lies
\* between 0 and the clamp.
C17_ThrottleWaitBound ==
    (Handled /\ computed.raised = "none") =>
        computed.value \in 0..MAX_RATE_LIMIT_WAIT

\* The retry-after value the body of a 429 names: its retry_after, else
\* parameters.retry_after; the default when there is none, when it is not a
\* number, and when the body is not a JSON object.
NamedByBody(resp) ==
    LET v == IF resp.body_retry_after # None THEN resp.body_retry_after
             ELSE IF resp.parameters.is_dict THEN resp.parameters.retry_after
             ELSE None
    IN  IF resp.json = "object" /\ v # None /\ v # NotANumber THEN v ELSE DEFAULT_WAIT

\* C18: throttle retry-after source. _handle_rate_limit_error computes the wait
\* from the value the body names (the default 1.0 when it names none), and
\* from the Retry-After header instead when the header is there and is a
\* number.
C18_RetryAfterSource ==
    Handled =>
        /\ computed.raised = "none"
        /\ computed.retry_after =
               IF response.header_retry_after \notin {None, NotANumber}
               THEN response.header_retry_after
               ELSE NamedByBody(response)

\* C19: exhaustion error payload. When the answer to the last attempt
\* (attempt = MAX_RETRIES) is a 429, the RateLimitError raised carries as
\* retry_after the wait _handle_rate_limit_error computed for that answer and
\* that attempt; when it is a FLOOD_WAIT, the FloodWaitError raised carries as
\* wait_time and as retry_after the seconds _extract_flood_wait_time parsed
\* from that answer.
C19_ExhaustionPayload ==
    [][\A c \in ClientCallers : \A resp \in Responses :
          (ClientResponds(c, resp) /\ attempt[c] = MAX_RETRIES) =>
              /\ Throttled(resp) =>
                     /\ result'[c].type = "RateLimitError"
                     /\ \E k \in ThrottleJitter(resp, MAX_RETRIES) :
                            result'[c].wait = HandleRateLimitError(resp, MAX_RETRIES, k)
              /\ FloodWait(resp) =>
                     /\ result'[c].type = "FloodWaitError"
                     /\ result'[c].wait_time = ExtractFloodWaitTime(resp)
                     /\ result'[c].wait = result'[c].wait_time]_vars

\* An invocation has ended with a FloodWaitError that carries a wait other
\* than the default of the constructor.
C19_Witness ==
    \E c \in ClientCallers :
        /\ pc[c] = "idle"
        /\ result[c].type = "FloodWaitError"
        /\ result[c].wait_time = MAX_FLOOD_WAIT
        /\ result[c].wait = MAX_FLOOD_WAIT
        /\ result[c].calls = MAX_RETRIES + 1

\* C20: transport failures. When a call ends with a timeout or a connection
\* error at an attempt below MAX_RETRIES, _request sleeps 2^attempt plus a
\* jitter of at most JITTER (one second in the source) and then sends the
\* request again with the next attempt index; at attempt MAX_RETRIES it does
\* not sleep and the transport exception ends the invocation.
C20_TransportFailures ==
    [][\A c \in ClientCallers :
          /\ ClientResponds(c, TransportError) =>
                 IF attempt[c] < MAX_RETRIES
                 THEN /\ pc'[c] = "backoff_sleep"
                      /\ wake_at'[c] - Now \in (2^attempt[c])..(2^attempt[c] + JITTER)
                      /\ stat'[c].sleeps = stat[c].sleeps + 1
                      /\ stat'[c].calls = stat[c].calls
                 ELSE /\ pc'[c] = "idle"
                      /\ result'[c].type = "RequestError"
                      /\ result'[c].calls = stat[c].calls
          /\ RetryRequest(c) =>
                 /\ pc'[c] = "await"
                 /\ attempt'[c] = attempt[c] + 1
                 /\ stat'[c].calls = stat[c].calls + 1]_vars

\* An invocation has ended with the transport exception of its last attempt,
\* after MAX_RETRIES backoff sleeps.
C20_Witness ==
    \E c \in ClientCallers :
        /\ pc[c] = "idle"
        /\ result[c].type = "RequestError"
        /\ result[c].calls = MAX_RETRIES + 1
        /\ result[c].fails = 0

\* The callers that have read the state of a gate and sleep before they write
\* it: RateGate, the cadence entry of chat d, EditQuota.
InRateGate == {c \in Callers : pc[c] = "rate_sleep"}
InMessageGate(d) == {c \in Callers : pc[c] = "msg_sleep" /\ op[c].chat_id = d}
InEditGate == {c \in Callers : pc[c] \in {"quota_sleep", "edit_sleep"}}

\* C21: per-gate serialization. For each gate, at most one caller at a time is
\* between its read of the gate's state and its write: never two callers
\* asleep inside the same gate.
C21_PerGateSerialization ==
    /\ Cardinality(InRateGate) <= 1
    /\ \A d \in Chats : Cardinality(InMessageGate(d)) <= 1
    /\ Cardinality(InEditGate) <= 1

\* C22: cancellation leaves the gates untouched. An operation that is
\* cancelled while it waits in a gate, before its provider call, has written
\* no gate: it has recorded no edit (time and count), no message time and no
\* request time.
C22_CancellationLeavesGatesUntouched ==
    [][\A c \in Callers :
          Cancel(c) =>
              /\ stat[c].edits = 0
              /\ stat[c].msgs = 0
              /\ stat[c].gates = 0
              /\ stat[c].calls = 0]_vars

\* The step in which caller c issues an outbound call.
CallIssued(c) == stat'[c].calls = stat[c].calls + 1
\* The operation caller c executes in a step: the one it starts, or the one
\* in progress.
Executing(c) == IF op[c] = NoOp THEN op'[c] ELSE op[c]
HasDestination(o) == o.check_msg /\ o.chat_id # NoChat

\* C23: gate order per attempt. Every outbound call of an invocation, the
\* first and every resubmission, is issued after an acquisition of its own of
\* each applicable gate: EditQuota if the request is an edit, the cadence gate
\* if it names a destination, and RateGate; and within an attempt the edit
\* gate is acquired before the cadence gate and both before RateGate.
C23_GateOrderPerAttempt ==
    [][\A c \in ClientCallers :
          /\ CallIssued(c) =>
                 /\ stat'[c].gates = stat'[c].calls
                 /\ Executing(c).is_edit => stat'[c].edits = stat'[c].calls
                 /\ HasDestination(Executing(c)) => stat'[c].msgs = stat'[c].calls
          /\ RateGateAcquired(c) =>
                 /\ Executing(c).is_edit => stat'[c].edits = stat'[c].gates
                 /\ HasDestination(Executing(c)) => stat'[c].msgs = stat'[c].gates
          /\ (EditGateAcquired(c) /\ HasDestination(Executing(c)))
                 => stat[c].msgs = stat[c].edits]_vars

\* C24: independent gates. A send or forward to chat d sleeps in the cadence
\* gate only by d's own last message time, whatever the other caller is
\* waiting for: with no message to d yet, or the last one MSG_DELAY or more
\* back, it acquires the gate at once; otherwise it sleeps for what is left
\* of MSG_DELAY since d's last message, plus the jitter.
StartsMessageTo(c, d) == pc[c] = "idle" /\ op'[c].check_msg /\ op'[c].chat_id = d
C24_IndependentGates ==
    [][\A c \in Callers : \A d \in Chats :
          StartsMessageTo(c, d) =>
              LET last == last_message_time_per_chat[d]
              IN  IF last = None \/ Now - last >= MSG_DELAY
                  THEN /\ pc'[c] # "msg_sleep"
                       /\ stat'[c].msgs = 1
                       /\ last_message_time_per_chat'[d] = Now
                  ELSE /\ pc'[c] = "msg_sleep"
                       /\ \E j \in 0..JITTER :
                              wake_at'[c] = Now + MSG_DELAY - (Now - last) + j]_vars
\* The first caller has been asleep for a tick in the cadence gate of chat "A"
\* and the second has just acquired the gate of chat "B".
C24_Witness ==
    /\ pc[1] = "msg_sleep" /\ op[1].chat_id = "A"
    /\ last_message_time_per_chat["A"] = Now - MSG_DELAY /\ wake_at[1] = Now + 1
    /\ op[2].chat_id = "B" /\ stat[2].msgs = 1
    /\ last_message_time_per_chat["B"] = Now

\* C25: window reset condition. The edit counter goes back to 0 and the reset
\* time to now + EDIT_WINDOW exactly in a check of the edit gate (on entry, or
\* on waking from the quota sleep) that finds no reset time or finds that now
\* has reached it: such a check always resets before the caller counts its own
\* edit, a check made earlier leaves the window alone, and no other step
\* lowers the counter or moves the reset time.
WindowOver == edit_count_reset_time = None \/ Now >= edit_count_reset_time
ChecksWindow(c) ==
    \/ pc[c] = "idle" /\ pc'[c] # "idle" /\ op'[c].is_edit
    \/ pc[c] = "quota_sleep" /\ pc'[c] # "quota_sleep"
WindowReset(c) ==
    /\ edit_count_reset_time' = Now + EDIT_WINDOW
    /\ edit_count_last_hour' = stat'[c].edits
    /\ stat'[c].edits <= 1
WindowKept(c) ==
    /\ edit_count_reset_time' = edit_count_reset_time
    /\ edit_count_last_hour' = edit_count_last_hour + stat'[c].edits - stat[c].edits
C25_WindowResetCondition ==
    [][/\ \A c \in Callers :
             ChecksWindow(c) => IF WindowOver THEN WindowReset(c) ELSE WindowKept(c)
       /\ (\/ edit_count_last_hour' < edit_count_last_hour
           \/ edit_count_reset_time' = Now + EDIT_WINDOW
                  /\ edit_count_reset_time # Now + EDIT_WINDOW)
             => WindowOver /\ \E c \in Callers : ChecksWindow(c)]_vars
\* A window that followed another has just been opened: the edit gate was
\* acquired before this tick, and the one edit of the new window is counted.
C25_Witness ==
    /\ edit_count_reset_time = Now + EDIT_WINDOW
    /\ edit_count_last_hour = 1
    /\ Len(edit_log) >= 2 /\ edit_log[Len(edit_log)] = Now
    /\ edit_log[Len(edit_log) - 1] < Now

\* C26: the quota failure of TelegramClient has no side effect. A _request
\* that ends with the RateLimitError of _check_edit_rate_limit leaves the time
\* of the last edit, the edit counter, the reset time, the time of the last
\* request and the times of the last messages as they were, and has sent no
\* HTTP request.
QuotaRefused(c) ==
    /\ \E a \in RequestArgs : Request(c, a.is_edit, a.check_msg, a.chat_id)
    /\ result'[c].type = "RateLimitError"
    /\ result'[c].data = "edit_quota"
C26_QuotaFailureSideEffectFree ==
    [][\A c \in ClientCallers :
          QuotaRefused(c) =>
              /\ UNCHANGED <<last_edit_time, edit_count_last_hour,
                             edit_count_reset_time, last_request_time,
                             last_message_time_per_chat, edit_log>>
              /\ pc'[c] = "idle"
              /\ result'[c].calls = 0]_vars
\* An edit request has been refused one tick before the window ends, after
\* requests that moved every field of the edit gate and of RateGate.
C26_Witness ==
    \E c \in ClientCallers :
        /\ pc[c] = "idle"
        /\ result[c].type = "RateLimitError"
        /\ result[c].data = "edit_quota"
        /\ result[c].wait = 1
        /\ edit_count_reset_time = Now + 1
        /\ last_edit_time # None /\ last_request_time # None

\* C27: the wait directive is honoured before the resubmission. A FLOOD_WAIT
\* answer with parsed wait s at an attempt below MAX_RETRIES makes _request
\* sleep for s plus a jitter of less than a second, with the attempt index as
\* it was; the request is sent again only once the sleep is over, and that
\* resubmission has the next attempt index.
C27_WaitDirectiveHonoured ==
    [][\A c \in ClientCallers :
          /\ \A resp \in Responses :
                (ClientResponds(c, resp) /\ FloodWait(resp) /\ attempt[c] < MAX_RETRIES) =>
                    /\ pc'[c] = "backoff_sleep"
                    /\ wake_at'[c] >= Now + ExtractFloodWaitTime(resp)
                    /\ wake_at'[c] <= Now + ExtractFloodWaitTime(resp) + JITTER
                    /\ attempt'[c] = attempt[c]
                    /\ stat'[c].calls = stat[c].calls
          /\ (pc[c] = "backoff_sleep" /\ stat'[c].calls # stat[c].calls) =>
                    /\ Now >= wake_at[c]
                    /\ attempt'[c] = attempt[c] + 1
                    /\ stat'[c].calls = stat[c].calls + 1
                    /\ pc'[c] = "await"]_vars
\* After one resubmission the second answer, a FLOOD_WAIT with the largest
\* wait, has put the caller to sleep for that wait and the whole jitter.
C27_Witness ==
    \E c \in ClientCallers :
        /\ pc[c] = "backoff_sleep"
        /\ attempt[c] = 1 /\ stat[c].calls = 2 /\ stat[c].fails = 2
        /\ wake_at[c] = Now + MAX_FLOOD_WAIT + JITTER

\* C28: frame conditions of the gates. In every step of a request: one that
\* is not an edit leaves the time of the last edit, the edit counter and the
\* reset time as they were; one without a destination leaves the times of
\* the last messages as they were; one for chat d changes the time of no other
\* chat; and a chat that has a time never loses it.
C28_GateFrameConditions ==
    [][/\ \A c \in ClientCallers :
             ~Tick =>
                 /\ ~Executing(c).is_edit =>
                        UNCHANGED <<last_edit_time, edit_count_last_hour,
                                    edit_count_reset_time>>
                 /\ ~HasDestination(Executing(c)) =>
                        UNCHANGED last_message_time_per_chat
                 /\ \A d \in Chats \ {Executing(c).chat_id} :
                        last_message_time_per_chat'[d] = last_message_time_per_chat[d]
       /\ \A d \in Chats :
             last_message_time_per_chat[d] # None => last_message_time_per_chat'[d] # None]_vars
\* A request for chat "B" has acquired its gates at this tick; the time of
\* chat "A" is a tick old, and an edit was made before.
C28_Witness ==
    \E c \in ClientCallers :
        /\ op[c].chat_id = "B" /\ stat[c].msgs = 1 /\ pc[c] = "await"
        /\ last_message_time_per_chat["B"] = Now
        /\ last_message_time_per_chat["A"] = Now - 1
        /\ last_edit_time # None /\ last_edit_time < Now

\* C29: validation fails before any gate. send_message, edit_message and
\* forward_message of TelegramCore called with an invalid chat identifier
\* return the validation error in the same run: no call to Telethon, no
\* sleep, and the time of the last request, the times of the last messages,
\* the time of the last edit, the edit counter and the reset time unchanged.
CalledWithInvalidId(c) ==
    \/ SendMessage(c, InvalidChat)
    \/ EditMessage(c, InvalidChat)
    \/ \E from_chat, to_chat \in Chats \cup {InvalidChat} :
          /\ InvalidChat \in {from_chat, to_chat}
          /\ ForwardMessage(c, from_chat, to_chat)
C29_ValidationBeforeGates ==
    [][\A c \in Callers :
          CalledWithInvalidId(c) =>
              /\ pc'[c] = "idle"
              /\ result'[c].type = "validation_error"
              /\ result'[c].calls = 0
              /\ UNCHANGED <<last_request_time, last_message_time_per_chat,
                             last_edit_time, edit_count_last_hour,
                             edit_count_reset_time, edit_log, wake_at>>]_vars
\* A call has been rejected while the other caller sleeps in a gate, after
\* messages and edits that set every field of the gates.
C29_Witness ==
    \E c, other \in Callers :
        /\ pc[c] = "idle" /\ result[c].type = "validation_error"
        /\ pc[other] \in GateSleeps
        /\ last_request_time # None /\ last_edit_time # None
        /\ last_message_time_per_chat["B"] # None

\* C30: bounded retry and termination. Whatever the answers, an invocation of
\* _request sends at most MAX_RETRIES + 1 HTTP requests; its attempt index
\* never exceeds MAX_RETRIES, is one less than the number of requests sent so
\* far whichever failures came before, and goes up by exactly 1 with every
\* resubmission; and, time passing and requests being answered, the
\* invocation ends by returning or raising.
C30_BoundedRetryTermination ==
    /\ [](\A c \in ClientCallers :
            /\ stat[c].calls <= MAX_RETRIES + 1
            /\ attempt[c] <= MAX_RETRIES
            /\ pc[c] \in {"await", "backoff_sleep"} => stat[c].calls = attempt[c] + 1)
    /\ [][\A c \in ClientCallers :
            (stat[c].calls > 0 /\ stat'[c].calls > stat[c].calls) =>
                /\ attempt'[c] = attempt[c] + 1
                /\ stat'[c].calls = stat[c].calls + 1]_vars
    /\ \A c \in ClientCallers : (pc[c] # "idle") ~> (pc[c] = "idle")
\* An invocation has returned a result at its last attempt, after failures of
\* two kinds: one 429 or FLOOD_WAIT answer and one other failure.
C30_Witness ==
    \E c \in ClientCallers :
        /\ pc[c] = "idle" /\ result[c].type = "ok"
        /\ result[c].calls = MAX_RETRIES + 1
        /\ result[c].fails = 1

\* C31: every throttle response is retried or reported as RateLimitError.
\* Whatever the body and the retry-after values of a 429, _request sleeps and
\* sends the request again when the attempt index is below MAX_RETRIES, and
\* raises RateLimitError when it is MAX_RETRIES; no other exception leaves
\* the throttle branch.
C31_ThrottleRetriedOrReported ==
    [][\A c \in ClientCallers : \A resp \in ThrottleAnswers :
          ClientResponds(c, resp) =>
              IF attempt[c] < MAX_RETRIES
              THEN pc'[c] = "backoff_sleep"
              ELSE pc'[c] = "idle" /\ result'[c].type = "RateLimitError"]_vars

\* C32: no sleep after the last call. At the attempt MAX_RETRIES a 429, a
\* FLOOD_WAIT, an HTTP error status or a transport failure makes _request
\* raise in the run that handles the answer: no backoff sleep is started, and
\* a caller in a backoff sleep always has a call left to make.
FailedCall(resp) ==
    resp.transport \/ Throttled(resp) \/ FloodWait(resp) \/ resp.status >= 400
C32_NoSleepAfterLastCall ==
    /\ [](\A c \in ClientCallers :
            pc[c] = "backoff_sleep" =>
                /\ stat[c].calls <= MAX_RETRIES
                /\ stat[c].sleeps = stat[c].calls)
    /\ [][\A c \in ClientCallers : \A resp \in Responses :
            (ClientResponds(c, resp) /\ FailedCall(resp) /\ attempt[c] = MAX_RETRIES) =>
                /\ stat[c].sleeps = MAX_RETRIES
                /\ pc'[c] = "idle"
                /\ result'[c].data = "raised"
                /\ result'[c].calls = MAX_RETRIES + 1
                /\ wake_at'[c] = wake_at[c]]_vars
\* An invocation has ended with the HTTP error of its last attempt; one of
\* the earlier answers was a 429 or a FLOOD_WAIT.
C32_Witness ==
    \E c \in ClientCallers :
        /\ pc[c] = "idle"
        /\ result[c].type = "HTTPStatusError"
        /\ result[c].calls = MAX_RETRIES + 1
        /\ result[c].fails = 1

\* C33: the FloodWait handling of TelegramCore is a single bounded retry. In
\* send_message, edit_message and forward_message a FloodWaitError of the
\* first attempt starts one sleep of min(seconds, MAX_FLOOD_WAIT) plus the
\* jitter; the calls are then made once more, with no gate acquired and no
\* gate field written; every other outcome, of the first attempt or of the
\* retry, ends the operation with a result or an error string. An operation
\* makes at most two attempts and ends with a string, never an exception.
CoreResults == {"none", "ok", "error", "validation_error"}
C33_SingleFloodRetry ==
    /\ [](\A c \in Callers :
            /\ stat[c].calls <= 2
            /\ result[c].calls <= 2
            /\ result[c].type \in CoreResults
            /\ pc[c] = "flood_sleep" => stat[c].calls = 1)
    /\ [][\A c \in Callers :
            /\ \A out \in ProviderOutcomes :
                  ProviderReturns(c, out) =>
                      IF out.kind = "flood" /\ stat[c].calls = 1
                      THEN /\ pc'[c] = "flood_sleep"
                           /\ wake_at'[c] >= Now + Min(out.seconds, MAX_FLOOD_WAIT)
                           /\ wake_at'[c] <= Now + Min(out.seconds, MAX_FLOOD_WAIT) + JITTER
                           /\ stat'[c] = stat[c]
                      ELSE /\ pc'[c] = "idle"
                           /\ result'[c].type = (IF out.kind = "ok" THEN "ok" ELSE "error")
                           /\ result'[c].calls = stat[c].calls
            /\ CoreRetry(c) =>
                      /\ Now >= wake_at[c]
                      /\ pc'[c] = "await"
                      /\ stat'[c] = [stat[c] EXCEPT !.calls = 2]
                      /\ UNCHANGED <<last_request_time, last_message_time_per_chat,
                                     last_edit_time, edit_count_last_hour,
                                     edit_count_reset_time, edit_log>>]_vars
\* A forward or a send to chat "B" has ended with an error at its second
\* attempt, the one made after the FloodWait sleep.
C33_Witness ==
    /\ pc[2] = "idle"
    /\ result[2].type = "error"
    /\ result[2].calls = 2
    /\ last_message_time_per_chat["B"] # None

\* C34: the destination reaches the gate and the wire. send_message(chat_id,
\* message) acquires the cadence gate of chat_id and sends a POST whose body
\* has the members chat_id and message; and every other method that passes
\* chat_id to _post as a member of the body sends a body that has the chat_id
\* of the caller.
EntersMessageGate(c, chat) ==
    /\ op'[c].check_msg /\ op'[c].chat_id = chat
    /\ pc'[c] = "msg_sleep" \/ stat'[c].msgs = 1
C34_DestinationReachesGateAndWire ==
    [][\A c \in ClientCallers : \A chat \in Chats :
          /\ PostCall(c, "send_message", chat) =>
                 /\ EntersMessageGate(c, chat)
                 /\ {<<"chat_id", chat>>, <<"message", "text">>} \subseteq json_data'
          /\ \A method \in PostMethods \ {"send_message", "forward_message"} :
                 PostCall(c, method, chat) =>
                     /\ pc'[c] # "idle"
                     /\ <<"chat_id", chat>> \in json_data']_vars

\* C35: dead fall-through. With max_retries >= 0 no invocation of _request
\* reaches the code after the retry loop, and no answer is handled by going on
\* to the next iteration without a sleep (the continue of the 429 test in the
\* HTTPStatusError handler): a step that handles an answer never sends a
\* request, and a resubmission always finds an iteration left. The code after
\* the loop is reached only with max_retries < 0, and then without any call.
FellThrough(c) == result[c].data = "fall_through"
C35_DeadFallThrough ==
    /\ [](\A c \in ClientCallers :
            /\ FellThrough(c) =>
                   /\ max_retries < 0
                   /\ result[c].calls = 0
                   /\ result[c].type = "TelegramClientError"
            /\ max_retries < 0 => stat[c].calls = 0 /\ pc[c] # "await")
    /\ [][\A c \in ClientCallers :
            /\ (\E resp \in Responses : ClientResponds(c, resp)) => ~CallIssued(c)
            /\ RetryRequest(c) => pc'[c] = "await" /\ CallIssued(c)
            /\ (max_retries < 0 /\ pc[c] # "idle" /\ pc'[c] = "idle") =>
                   result'[c].data \in {"fall_through", "edit_quota"}]_vars
\* A client with max_retries = -1 has passed RateGate for a request and
\* raised after the empty loop.
C35_Witness ==
    \E c \in ClientCallers :
        /\ max_retries = -1
        /\ FellThrough(c)
        /\ last_request_time = Now

\* C36: the backoff exponent is the shared attempt index. The wait computed
\* for a 429 is retry_after * 2^n plus its jitter (at most the clamp) and the
\* sleep after a transport failure is 2^n plus its jitter, where n is the
\* number of calls the invocation made before the one that failed, whatever
\* their outcomes were: a first 429 that follows two transport failures is
\* computed with n = 2.
EarlierCalls(c) == stat[c].calls - 1
ThrottleWaits(resp, n) ==
    {HandleRateLimitError(resp, n, k) : k \in ThrottleJitter(resp, n)}
C36_SharedAttemptExponent ==
    [][\A c \in ClientCallers : \A resp \in Responses :
          ClientResponds(c, resp) =>
              /\ Throttled(resp) =>
                     IF EarlierCalls(c) < MAX_RETRIES
                     THEN wake_at'[c] - Now \in ThrottleWaits(resp, EarlierCalls(c))
                     ELSE result'[c].wait \in ThrottleWaits(resp, EarlierCalls(c))
              /\ (resp.transport /\ EarlierCalls(c) < MAX_RETRIES) =>
                     wake_at'[c] - Now \in
                         (2^EarlierCalls(c))..(2^EarlierCalls(c) + JITTER)]_vars
\* The last call of an invocation, the first to be answered with a 429 (its
\* Retry-After header is 1), has ended it with a wait of 1 * 2^MAX_RETRIES
\* and a jitter.
C36_Witness ==
    \E c \in ClientCallers :
        /\ pc[c] = "idle"
        /\ result[c].type = "RateLimitError"
        /\ result[c].calls = MAX_RETRIES + 1 /\ result[c].fails = 1
        /\ result[c].wait \in (2^MAX_RETRIES)..(2^MAX_RETRIES + 1)

====
